---- MODULE Spec2Model ----
(***************************************************************************)
(* scripts/make_bench.py: the generator of the benchmark fixture           *)
(* history.txt (a LINE-style chat export).  The script opens the file,     *)
(* writes a fixed header and then, for every day of a date range, a date   *)
(* line, 100 one-line messages, one quoted multi-line message and a blank  *)
(* separator.                                                              *)
(*                                                                         *)
(* The file is a sequence of physical lines; every f.write of the script   *)
(* ends in a newline, so a write appends whole lines.  A line is the       *)
(* sequence of its tab-separated fields (the blank line is <<"">>).        *)
(***************************************************************************)
EXTENDS Integers, Sequences, FiniteSets, TLC

\* ---- bounds ------------------------------------------------------------
\* Days stands for the 10_000 of `range(10_000)` in the file-writing model:
\* the file is kept in full, so the day range is scaled down there.  The
\* date arithmetic is run over the whole range in SpecDate (DayCount).
Days == 3
\* how many times the script is launched in one behaviour
MaxRuns == 2
\* wall-clock instants at which a launch may happen: 0..MaxClock
MaxClock == 1

\* ---- program constants -------------------------------------------------
DayCount == 10000
MsgsPerDay == 100

\* a loop variable whose range has yielded nothing yet
NoIndex == -1

\* a name that no assignment has bound yet
Unbound == [unbound |-> TRUE]

\* ---- state ---------------------------------------------------------------
VARIABLES
    pc,        \* the statement the script is at
    file,      \* the lines of history.txt
    fileOpen,  \* f is open
    i,         \* loop variable of line 6 (NoIndex before the first iteration)
    j,         \* loop variable of line 9 (NoIndex while its range is fresh)
    date,      \* line 7
    time,      \* line 10; keeps its last value after the inner loop
    trace,     \* history: the write statements completed in this run
    fault,     \* history: the write statement that raised in this run
    closes,    \* history: how many times f was closed in this run
    prevDate,  \* history: the value of date before its last assignment
    runs,      \* environment: launches so far
    now,       \* environment: the wall clock at the launch
    outputs    \* history: for each completed run, its launch time and the
               \* file it left

vars == <<pc, file, fileOpen, i, j, date, time, trace, fault, closes,
          prevDate, runs, now, outputs>>

\* ---- datetime (the library calls of lines 7 and 10) ---------------------
IsLeap(y) == y % 4 = 0 /\ (y % 100 # 0 \/ y % 400 = 0)

DaysBeforeMonth(y, m) ==
    <<0, 31, 59, 90, 120, 151, 181, 212, 243, 273, 304, 334>>[m]
        + (IF m > 2 /\ IsLeap(y) THEN 1 ELSE 0)

DaysBeforeYear(y) ==
    LET p == y - 1 IN p * 365 + p \div 4 - p \div 100 + p \div 400

\* date.toordinal(): the proleptic Gregorian ordinal, 0001-01-01 is day 1
ymd2ord(y, m, d) == DaysBeforeYear(y) + DaysBeforeMonth(y, m) + d

\* variant of ord2ymd that forgets the leap day when it picks the month
ord2ymd_SkipsLeapDay(n) ==
    LET n0   == n - 1
        n400 == n0 \div 146097
        r400 == n0 % 146097
        n100 == r400 \div 36524
        r100 == r400 % 36524
        n4   == r100 \div 1461
        r4   == r100 % 1461
        n1   == r4 \div 365
        r1   == r4 % 365
        year == n400 * 400 + 1 + n100 * 100 + n4 * 4 + n1
        m0   == (r1 + 50) \div 32
        pre0 == <<0, 31, 59, 90, 120, 151, 181, 212, 243, 273, 304, 334>>[m0]
        back == pre0 > r1
        month == IF back THEN m0 - 1 ELSE m0
        pre  == IF back
                THEN pre0 - <<31, 28, 31, 30, 31, 30, 31, 31, 30, 31, 30, 31>>[month]
                ELSE pre0
    IN  IF n1 = 4 \/ n100 = 4
        THEN <<year - 1, 12, 31>>
        ELSE <<year, month, r1 - pre + 1>>

\* date.fromordinal(): the inverse of ymd2ord, by the 400/100/4/1-year
\* cycle decomposition
ord2ymd(n) ==
    LET n0   == n - 1
        n400 == n0 \div 146097
        r400 == n0 % 146097
        n100 == r400 \div 36524
        r100 == r400 % 36524
        n4   == r100 \div 1461
        r4   == r100 % 1461
        n1   == r4 \div 365
        r1   == r4 % 365
        year == n400 * 400 + 1 + n100 * 100 + n4 * 4 + n1
        leap == n1 = 3 /\ (n4 # 24 \/ n100 = 3)
        lp(m) == IF m > 2 /\ leap THEN 1 ELSE 0
        m0   == (r1 + 50) \div 32
        pre0 == <<0, 31, 59, 90, 120, 151, 181, 212, 243, 273, 304, 334>>[m0]
                    + lp(m0)
        back == pre0 > r1
        month == IF back THEN m0 - 1 ELSE m0
        pre  == IF back
                THEN pre0 - (<<31, 28, 31, 30, 31, 30, 31, 31, 30, 31, 30, 31>>[month]
                                + (IF month = 2 /\ leap THEN 1 ELSE 0))
                ELSE pre0
    IN  IF n1 = 4 \/ n100 = 4
        THEN <<year - 1, 12, 31>>
        ELSE <<year, month, r1 - pre + 1>>

\* datetime.datetime(y, m, d, hh, mm)
datetime(y, m, d, hh, mm) ==
    [year |-> y, month |-> m, day |-> d, hour |-> hh, minute |-> mm]

\* datetime.timedelta(days=.., minutes=..), normalised to days and seconds
timedelta(days, minutes) ==
    [days |-> days + (minutes * 60) \div 86400,
     seconds |-> (minutes * 60) % 86400]

\* datetime + timedelta
AddDelta(dt, td) ==
    LET total == dt.hour * 3600 + dt.minute * 60 + td.seconds
        ord   == ymd2ord(dt.year, dt.month, dt.day) + td.days + total \div 86400
        secs  == total % 86400
        ymd   == ord2ymd(ord)
    IN  [year |-> ymd[1], month |-> ymd[2], day |-> ymd[3],
         hour |-> secs \div 3600, minute |-> (secs % 3600) \div 60]

\* datetime.weekday(): Monday is 0
Weekday(dt) == (ymd2ord(dt.year, dt.month, dt.day) + 6) % 7

\* ---- formatting (the f-string format specs of lines 8, 11, 12) ----------
Digit == <<"0", "1", "2", "3", "4", "5", "6", "7", "8", "9">>

\* %m, %d, %H, %M: two digits, zero padded
Fmt2(n) == Digit[(n \div 10) + 1] \o Digit[(n % 10) + 1]

\* %Y
Fmt4(n) == Fmt2(n \div 100) \o Fmt2(n % 100)

\* %a in the C locale
DayAbbr == <<"Mon", "Tue", "Wed", "Thu", "Fri", "Sat", "Sun">>

\* f"{date:%Y/%m/%d(%a)}"
FormatDate(dt) ==
    Fmt4(dt.year) \o "/" \o Fmt2(dt.month) \o "/" \o Fmt2(dt.day)
        \o "(" \o DayAbbr[Weekday(dt) + 1] \o ")"

\* f"{time:%H:%M}"
FormatTime(dt) == Fmt2(dt.hour) \o ":" \o Fmt2(dt.minute)

\* ---- the texts written ---------------------------------------------------
Blank == <<"">>

\* line 4: the fixed three-line header: a title line, a "saved at" line and
\* a blank line.  The two Japanese phrases of the literal are written in
\* ASCII here (strings of this module are ASCII); nothing reads them.
\* variant of HeaderLines whose "saved at" line carries the launch time
HeaderLines_Stamped ==
    << <<"[LINE] xxx talk history">>,
       <<"saved: 2024/01/01 00:0" \o Digit[now + 1]>>, Blank >>

HeaderLines ==
    << <<"[LINE] xxx talk history">>, <<"saved: 2024/01/01 00:00">>, Blank >>

\* line 8
DateLines(d) == << <<FormatDate(d)>> >>

\* line 11
MessageLines(t) == << <<FormatTime(t), "NAME", "MESSAGE">> >>

\* variant of QuotedLines with the quoted body on one physical line
QuotedLines_Short(t) ==
    << <<FormatTime(t), "NAME", "\"MESSAGE LINE 0\"">> >>

\* line 12: one message whose quoted body spans nine physical lines
QuotedLines(t) ==
    << <<FormatTime(t), "NAME", "\"MESSAGE LINE 0">>,
       <<"MESSAGE LINE 1">>, <<"MESSAGE LINE 2">>, <<"MESSAGE LINE 3">>,
       <<"MESSAGE LINE 4">>, <<"MESSAGE LINE 5">>, <<"MESSAGE LINE 6">>,
       <<"MESSAGE LINE 7">>, <<"MESSAGE LINE 8\"">> >>

\* line 13
SeparatorLines == << Blank >>

\* lines 6-7: the date of day-block k
DateOfDay(k) == AddDelta(datetime(2024, 1, 1, 0, 0), timedelta(k, 0))

\* variant of TimeOfMessage stepping by hours instead of minutes
TimeOfMessage_Hours(d, k) == AddDelta(d, timedelta(0, 60 * k))

\* line 10: the time of the k-th one-line message of the block dated d
TimeOfMessage(d, k) == AddDelta(d, timedelta(0, k))

\* ---- the script ------------------------------------------------------------
WriteSites == {"header", "date", "msg", "quoted", "sep"}

\* what history.txt may hold before the first launch
PriorFiles == { <<>>, << <<"stale line">>, Blank >> }

Init ==
    /\ pc = "open"
    /\ file \in PriorFiles
    /\ fileOpen = FALSE
    /\ i = NoIndex
    /\ j = NoIndex
    /\ date = Unbound
    /\ time = Unbound
    /\ trace = <<>>
    /\ fault = "none"
    /\ closes = 0
    /\ prevDate = Unbound
    /\ runs = 1
    /\ now \in 0..MaxClock
    /\ outputs = <<>>

\* ---- the with-block --------------------------------------------------------
\* variant of OpenFile after which the header write is skipped
OpenFile_SkipHeader ==
    /\ pc = "open"
    /\ pc' = "outer"
    /\ file' = <<>>
    /\ fileOpen' = TRUE
    /\ UNCHANGED <<i, j, date, time, trace, fault, closes, prevDate,
                   runs, now, outputs>>

\* line 3: open("history.txt", "w") truncates the file
OpenFile ==
    /\ pc = "open"
    /\ pc' = "header"
    /\ file' = <<>>
    /\ fileOpen' = TRUE
    /\ UNCHANGED <<i, j, date, time, trace, fault, closes, prevDate,
                   runs, now, outputs>>

\* an exception leaves the with-block: f is closed and the script ends
Raise(site) ==
    /\ pc' = "faulted"
    /\ fault' = site
    /\ fileOpen' = FALSE
    /\ closes' = closes + (IF fileOpen THEN 1 ELSE 0)

\* f.write(lines) at statement `site`, then on to statement `next`;
\* writing to a closed file raises
Write(site, lines, next) ==
    /\ pc = site
    /\ IF fileOpen
       THEN /\ file' = file \o lines
            /\ trace' = Append(trace, site)
            /\ pc' = next
            /\ UNCHANGED <<fileOpen, fault, closes>>
       ELSE /\ Raise(site)
            /\ UNCHANGED <<file, trace>>
    /\ UNCHANGED <<i, date, time, prevDate, runs, now, outputs>>

\* line 4
WriteHeader == Write("header", HeaderLines, "outer") /\ UNCHANGED j

\* lines 6-7: the next day of range(Days)
BeginDay ==
    /\ pc = "outer"
    /\ i + 1 < Days
    /\ i' = i + 1
    /\ date' = DateOfDay(i + 1)
    /\ prevDate' = date
    /\ pc' = "date"
    /\ UNCHANGED <<file, fileOpen, j, time, trace, fault, closes, runs, now,
                   outputs>>

\* variant of WriteDate that writes no date line
WriteDate_Silent ==
    /\ pc = "date"
    /\ pc' = "inner"
    /\ j' = NoIndex
    /\ UNCHANGED <<file, fileOpen, i, date, time, trace, fault, closes,
                   prevDate, runs, now, outputs>>

\* line 8, and the fresh range(100) of line 9
WriteDate ==
    /\ Write("date", DateLines(date), "inner")
    /\ j' = NoIndex

\* lines 9-10: the next message of range(100)
BeginMessage ==
    /\ pc = "inner"
    /\ j + 1 < MsgsPerDay
    /\ j' = j + 1
    /\ time' = TimeOfMessage(date, j + 1)
    /\ pc' = "msg"
    /\ UNCHANGED <<file, fileOpen, i, date, trace, fault, closes, prevDate,
                   runs, now, outputs>>

\* line 11
WriteMessage == Write("msg", MessageLines(time), "inner") /\ UNCHANGED j

\* line 9: range(100) is exhausted
EndMessages ==
    /\ pc = "inner"
    /\ j + 1 = MsgsPerDay
    /\ pc' = "quoted"
    /\ UNCHANGED <<file, fileOpen, i, j, date, time, trace, fault, closes,
                   prevDate, runs, now, outputs>>

\* variant of WriteQuoted that stamps the quoted message a minute later
WriteQuoted_NextMinute ==
    /\ Write("quoted", QuotedLines(TimeOfMessage(date, j + 1)), "sep")
    /\ UNCHANGED j

\* line 12: `time` is whatever line 10 assigned last; reading it unassigned
\* raises
WriteQuoted ==
    /\ pc = "quoted"
    /\ IF time = Unbound
       THEN /\ Raise("quoted")
            /\ UNCHANGED <<file, i, j, date, time, trace, prevDate, runs, now,
                           outputs>>
       ELSE /\ Write("quoted", QuotedLines(time), "sep")
            /\ UNCHANGED j

\* variant of WriteSeparator that writes no blank line
WriteSeparator_Missing ==
    /\ Write("sep", <<>>, "outer")
    /\ UNCHANGED j

\* line 13
WriteSeparator == Write("sep", SeparatorLines, "outer") /\ UNCHANGED j

\* variant of CloseFile that leaves f open
CloseFile_Leak ==
    /\ pc = "outer"
    /\ i + 1 = Days
    /\ pc' = "done"
    /\ outputs' = Append(outputs, [at |-> now, text |-> file])
    /\ UNCHANGED <<file, fileOpen, closes, i, j, date, time, trace, fault,
                   prevDate, runs, now>>

\* line 6 with range(Days) exhausted: the with-block ends and closes f
CloseFile ==
    /\ pc = "outer"
    /\ i + 1 = Days
    /\ pc' = "done"
    /\ fileOpen' = FALSE
    /\ closes' = closes + 1
    /\ outputs' = Append(outputs, [at |-> now, text |-> file])
    /\ UNCHANGED <<file, i, j, date, time, trace, fault, prevDate, runs, now>>

\* the lines the write statement at pc is about to write
PendingLines ==
    CASE pc = "header" -> HeaderLines
      [] pc = "date"   -> DateLines(date)
      [] pc = "msg"    -> MessageLines(time)
      [] pc = "quoted" -> QuotedLines(time)
      [] pc = "sep"    -> SeparatorLines

\* the statement after the write statement at pc
AfterWrite ==
    CASE pc = "header" -> "outer"
      [] pc = "date"   -> "inner"
      [] pc = "msg"    -> "inner"
      [] pc = "quoted" -> "sep"
      [] pc = "sep"    -> "outer"

\* variant of WriteFails in which the exception is caught and ignored
WriteFails_Swallowed ==
    /\ pc \in WriteSites
    /\ fileOpen
    /\ \E k \in 0..(Len(PendingLines) - 1) :
            file' = file \o SubSeq(PendingLines, 1, k)
    /\ fault' = pc
    /\ pc' = AfterWrite
    /\ UNCHANGED <<fileOpen, closes, i, j, date, time, trace, prevDate, runs,
                   now, outputs>>

\* lines 4, 8, 11, 12, 13 when the write raises OSError (disk full, ...):
\* some of the lines, but not all, may have reached the file; nothing
\* catches the exception
WriteFails ==
    /\ pc \in WriteSites
    /\ fileOpen
    /\ \E k \in 0..(Len(PendingLines) - 1) :
            file' = file \o SubSeq(PendingLines, 1, k)
    /\ Raise(pc)
    /\ UNCHANGED <<i, j, date, time, trace, prevDate, runs, now, outputs>>

\* environment: the script has ended and is launched again, at any time,
\* over the file the earlier run left
Launch ==
    /\ pc \in {"done", "faulted"}
    /\ runs < MaxRuns
    /\ runs' = runs + 1
    /\ now' \in 0..MaxClock
    /\ pc' = "open"
    /\ i' = NoIndex
    /\ j' = NoIndex
    /\ date' = Unbound
    /\ time' = Unbound
    /\ prevDate' = Unbound
    /\ trace' = <<>>
    /\ fault' = "none"
    /\ closes' = 0
    /\ UNCHANGED <<file, fileOpen, outputs>>

\* the statements of the script when no write fails
Step ==
    \/ OpenFile
    \/ WriteHeader
    \/ BeginDay
    \/ WriteDate
    \/ BeginMessage
    \/ WriteMessage
    \/ EndMessages
    \/ WriteQuoted
    \/ WriteSeparator
    \/ CloseFile

Next == Step \/ WriteFails \/ Launch

Spec == Init /\ [][Next]_vars

\* no write fails; the interpreter keeps executing the script
NextNoFail == Step \/ Launch

SpecNoFail == Init /\ [][NextNoFail]_vars /\ WF_vars(Step)

\* ---- the date range at full length ----------------------------------------
\* lines 6-7 over range(10_000), the body of the day-block left out
InitDate ==
    /\ pc = "calendar"
    /\ file = <<>>
    /\ fileOpen = FALSE
    /\ i = NoIndex
    /\ j = NoIndex
    /\ date = Unbound
    /\ time = Unbound
    /\ trace = <<>>
    /\ fault = "none"
    /\ closes = 0
    /\ prevDate = Unbound
    /\ runs = 1
    /\ now = 0
    /\ outputs = <<>>

DateStep ==
    /\ pc = "calendar"
    /\ i + 1 < DayCount
    /\ i' = i + 1
    /\ date' = DateOfDay(i + 1)
    /\ prevDate' = date
    /\ UNCHANGED <<pc, file, fileOpen, j, time, trace, fault, closes, runs,
                   now, outputs>>

NextDate == DateStep

SpecDate == InitDate /\ [][NextDate]_vars

\* ---- reading the output --------------------------------------------------
\* the file is this run's: it has been opened (and truncated) by the run
ThisRun == pc # "open" /\ pc # "calendar"

IsBlank(l) == l = Blank

\* a one-line message: time, name, text
IsMessage(l) == Len(l) = 3 /\ l[3] = "MESSAGE"

\* the first physical line of the quoted message
IsQuotedHead(l) == Len(l) = 3 /\ l[3] = "\"MESSAGE LINE 0"

\* the texts of the shape yyyy/mm/dd(Www) over the years the model reaches
DateTexts ==
    { Fmt4(y) \o "/" \o Fmt2(m) \o "/" \o Fmt2(d) \o "(" \o DayAbbr[w] \o ")" :
        y \in 2024..(2024 + Days \div 365), m \in 1..12, d \in 1..31, w \in 1..7 }

IsDateLine(l) == Len(l) = 1 /\ l[1] \in DateTexts

\* the positions of the date lines
BlockStarts == { k \in DOMAIN file : IsDateLine(file[k]) }

\* the number of lines of the block starting at k, up to its blank line
BlockLen(k) ==
    LET ends == { m \in (k + 1)..Len(file) : IsBlank(file[m]) }
        stop == IF ends = {} THEN Len(file) + 1
                ELSE CHOOSE m \in ends : \A n \in ends : m <= n
    IN  stop - k

\* how many times the write statement `site` completed in this run
Count(site) == Cardinality({ k \in DOMAIN trace : trace[k] = site })

\* ---- C1 -------------------------------------------------------------------
\* C1 as stated: after a complete run the file holds Days day-blocks (10,000
\* in the script) after the header, and every day-block has exactly 101
\* physical lines before its blank separator line.
C1_BlockOf101Lines ==
    pc = "done" =>
        /\ Cardinality(BlockStarts) = Days
        /\ \A k \in BlockStarts : BlockLen(k) = MsgsPerDay + 1

\* C1 as amended: after a complete run the file holds Days day-blocks after
\* the three-line header, and every day-block has exactly 110 physical lines
\* before its blank separator line: the date line, the 100 one-line messages
\* and the 9 lines of the quoted message.
C1_BlockOf110Lines ==
    pc = "done" =>
        /\ Cardinality(BlockStarts) = Days
        /\ \A k \in BlockStarts : BlockLen(k) = 1 + MsgsPerDay + 9
        /\ Len(file) = 3 + Days * (1 + MsgsPerDay + 9 + 1)

C1_Witness ==
    /\ pc = "done"
    /\ Cardinality(BlockStarts) = Days
    /\ \E k \in BlockStarts : IsBlank(file[k + BlockLen(k)])

\* ---- C2 -------------------------------------------------------------------
\* the write statement that completes k-th in a run without failure
SiteAt(k) ==
    IF k = 1 THEN "header"
    ELSE LET r == (k - 2) % (MsgsPerDay + 3)
         IN  IF r = 0 THEN "date"
             ELSE IF r <= MsgsPerDay THEN "msg"
             ELSE IF r = MsgsPerDay + 1 THEN "quoted"
             ELSE "sep"

\* C2: in every day-block the records come in the order date line, 100
\* one-line messages, the quoted multi-line message, the blank separator:
\* the writes of a run follow that order at every point of the run, and in
\* the file every one-line message follows the date line or a one-line
\* message, and the quoted message follows 100 one-line messages that
\* follow the date line.
C2_BlockOrder ==
    /\ \A k \in DOMAIN trace : trace[k] = SiteAt(k)
    /\ ThisRun =>
        \A k \in DOMAIN file :
            /\ IsMessage(file[k]) =>
                   k > 1 /\ (IsDateLine(file[k - 1]) \/ IsMessage(file[k - 1]))
            /\ IsQuotedHead(file[k]) =>
                   /\ k > MsgsPerDay + 1
                   /\ IsDateLine(file[k - MsgsPerDay - 1])
                   /\ \A n \in (k - MsgsPerDay)..(k - 1) : IsMessage(file[n])
                   /\ k + 9 <= Len(file) => IsBlank(file[k + 9])

C2_Witness ==
    /\ pc = "outer"
    /\ i = 1
    /\ Count("quoted") = 2
    /\ IsQuotedHead(file[Len(file) - 9])

\* ---- C3 -------------------------------------------------------------------
\* C3: the header is written once per run and is the first write: whenever
\* anything has been written the first write was the header, the header
\* is written at most once (exactly once in a completed run), and the file
\* begins with the header lines, which occur nowhere later.
C3_HeaderOnceFirst ==
    /\ trace # <<>> => trace[1] = "header"
    /\ Count("header") <= 1
    /\ pc = "done" => Count("header") = 1
    /\ (ThisRun /\ Len(file) >= 3) =>
          /\ SubSeq(file, 1, 3) = HeaderLines
          /\ \A k \in 4..Len(file) :
                file[k] # HeaderLines[1] /\ file[k] # HeaderLines[2]

C3_Witness ==
    /\ pc = "outer"
    /\ i = 1
    /\ Count("header") = 1
    /\ Count("date") = 2

\* ---- C4 -------------------------------------------------------------------
\* C4: the output is deterministic: any two completed runs leave the same
\* sequence of lines in the file, whatever the launch times and whatever
\* the file held before (stale content, the output or the partial output of
\* an earlier run): right after the open nothing of the earlier content is
\* left in the file.
C4_Deterministic ==
    /\ \A a \in DOMAIN outputs : \A b \in DOMAIN outputs :
          outputs[a].text = outputs[b].text
    /\ pc = "header" => file = <<>>

C4_Witness ==
    /\ Len(outputs) = 2
    /\ outputs[1].at # outputs[2].at
    /\ pc = "done"
    /\ file = outputs[1].text

\* ---- C5 -------------------------------------------------------------------
\* C5: every date line is immediately preceded by a blank line; a blank
\* line is the last line written so far or is immediately followed by a
\* date line (so none stands between a date line and its messages, between
\* two messages, inside the quoted message, or next to another blank line);
\* and after a complete run every day-block is closed by its blank line,
\* the last line of the file included.
C5_BlankLines ==
    ThisRun =>
        /\ \A k \in DOMAIN file :
            /\ IsDateLine(file[k]) => k > 1 /\ IsBlank(file[k - 1])
            /\ IsBlank(file[k]) => k = Len(file) \/ IsDateLine(file[k + 1])
        /\ pc = "done" =>
            /\ IsBlank(file[Len(file)])
            /\ \A k \in BlockStarts :
                  k + BlockLen(k) <= Len(file) /\ IsBlank(file[k + BlockLen(k)])

C5_Witness ==
    /\ pc = "done"
    /\ Cardinality({ k \in DOMAIN file : IsBlank(file[k]) }) = Days + 1
    /\ IsBlank(file[Len(file)])

\* ---- C6 -------------------------------------------------------------------
\* C6: a failed write ends the script at that write: once a write has
\* raised the script is in the faulted state, and from the faulted state the
\* only step is a new launch, which leaves the file as it is; so no later
\* write happens, the write is not retried, no day-block is started and the
\* run never becomes a completed one.
C6_FaultTerminates ==
    /\ [](fault # "none" => pc = "faulted" /\ ~fileOpen)
    /\ [][pc = "faulted" =>
            /\ pc' = "open"
            /\ runs' = runs + 1
            /\ file' = file
            /\ outputs' = outputs]_vars

C6_Witness ==
    /\ pc = "faulted"
    /\ fault = "msg"
    /\ i = 1
    /\ j = 50

\* ---- C7 -------------------------------------------------------------------
\* C7: when no write fails the script terminates; at the end the outer
\* loop has run Days times (10,000 in the script) and the inner loop 100
\* times in every outer iteration, the file is open throughout the writing
\* phase, is closed exactly once, and its content never changes while it is
\* closed except by the truncation of a new launch.
C7_TerminatesAndCloses ==
    /\ (pc = "open") ~> (pc = "done")
    /\ [](pc = "done" =>
            /\ closes = 1
            /\ ~fileOpen
            /\ i = Days - 1
            /\ Count("date") = Days
            /\ Count("msg") = Days * MsgsPerDay
            /\ Count("quoted") = Days)
    /\ [](pc = "quoted" => j = MsgsPerDay - 1 /\ Count("msg") = (i + 1) * MsgsPerDay)
    /\ [](pc \in {"header", "outer", "date", "inner", "msg", "quoted", "sep"}
            => fileOpen /\ closes = 0)
    /\ [][~fileOpen /\ file' # file => pc = "open" /\ fileOpen']_vars

C7_Witness ==
    /\ pc = "done"
    /\ closes = 1
    /\ ~fileOpen
    /\ Count("msg") = Days * MsgsPerDay

\* ---- C8 -------------------------------------------------------------------
DaysInMonth(y, m) ==
    IF m = 2 /\ IsLeap(y) THEN 29
    ELSE <<31, 28, 31, 30, 31, 30, 31, 31, 30, 31, 30, 31>>[m]

\* the calendar day after d, by the rules of the calendar
NextCalendarDay(d) ==
    IF d.day < DaysInMonth(d.year, d.month) THEN [d EXCEPT !.day = @ + 1]
    ELSE IF d.month < 12 THEN [d EXCEPT !.month = @ + 1, !.day = 1]
    ELSE [d EXCEPT !.year = @ + 1, !.month = 1, !.day = 1]

\* a < b as calendar days
DayBefore(a, b) ==
    \/ a.year < b.year
    \/ a.year = b.year /\ a.month < b.month
    \/ a.year = b.year /\ a.month = b.month /\ a.day < b.day

\* C8: the dates of successive day-blocks are consecutive calendar days
\* from 2024/01/01: block 0 is dated 2024/01/01 (a Monday), the date of
\* every later block is the calendar day after the date of the block before
\* it (so none is repeated or skipped), and the weekday label of block i is
\* the i-th after Mon in the 7-day cycle.
C8_ConsecutiveDays ==
    i # NoIndex =>
        /\ i = 0 => FormatDate(date) = "2024/01/01(Mon)"
        /\ i > 0 =>
            /\ date = NextCalendarDay(prevDate)
            /\ DayBefore(prevDate, date)
            /\ FormatDate(date) # FormatDate(prevDate)
        /\ date.hour = 0 /\ date.minute = 0
        /\ FormatDate(date) =
              Fmt4(date.year) \o "/" \o Fmt2(date.month) \o "/" \o Fmt2(date.day)
                  \o "(" \o DayAbbr[(i % 7) + 1] \o ")"

C8_Witness ==
    /\ pc = "calendar"
    /\ i = DayCount - 1
    /\ FormatDate(date) = "2051/05/18(Thu)"
    /\ FormatDate(prevDate) = "2051/05/17(Wed)"

\* ---- C9 -------------------------------------------------------------------
\* the minute of the day that a text hh:mm names
MinuteOf ==
    [ s \in { Fmt2(m \div 60) \o ":" \o Fmt2(m % 60) : m \in 0..1439 } |->
        CHOOSE m \in 0..1439 : s = Fmt2(m \div 60) \o ":" \o Fmt2(m % 60) ]

\* C9: in every day-block the j-th one-line message carries the time j
\* minutes after midnight of the block's date: the first one after a date
\* line reads 00:00, each next one reads one minute later than the one
\* before it (so the times are strictly increasing and distinct), the last
\* one reads 01:39, and the time stays on the block's calendar day.
C9_MinuteTimestamps ==
    /\ pc = "msg" =>
          time = [date EXCEPT !.hour = j \div 60, !.minute = j % 60]
    /\ ThisRun =>
        \A k \in DOMAIN file :
            /\ IsMessage(file[k]) =>
                /\ k > 1
                /\ IF IsMessage(file[k - 1])
                   THEN MinuteOf[file[k][1]] = MinuteOf[file[k - 1][1]] + 1
                   ELSE file[k][1] = "00:00"
                /\ MinuteOf[file[k][1]] < MsgsPerDay
            /\ (IsQuotedHead(file[k]) /\ k > 1) => file[k - 1][1] = "01:39"

C9_Witness ==
    /\ pc = "inner"
    /\ i = 1
    /\ j = MsgsPerDay - 1
    /\ file[Len(file)] = <<"01:39", "NAME", "MESSAGE">>
    /\ file[Len(file) - MsgsPerDay + 1] = <<"00:00", "NAME", "MESSAGE">>

\* ---- C10 ------------------------------------------------------------------
\* C10: the quoted message of every day-block carries the time of the last
\* one-line message of the same block, 01:39 on the block's date, not a
\* minute later and not a time of an earlier block: in the file its first
\* line follows a one-line message and repeats that message's time.
C10_QuotedReusesTime ==
    /\ pc = "quoted" =>
          time = [date EXCEPT !.hour = 1, !.minute = 39]
    /\ ThisRun =>
        \A k \in DOMAIN file :
            IsQuotedHead(file[k]) =>
                /\ k > 1
                /\ IsMessage(file[k - 1])
                /\ file[k][1] = file[k - 1][1]
                /\ file[k][1] = "01:39"

C10_Witness ==
    /\ pc = "sep"
    /\ i = 1
    /\ IsQuotedHead(file[Len(file) - 8])
    /\ file[Len(file) - 8][1] = "01:39"

====
